---------------------------- MODULE Spec2Model ----------------------------
(***************************************************************************)
(* PiStepper: a stepper-motor engine driven over GPIO lines.               *)
(*                                                                         *)
(* The model follows PiStepper.cpp statement by statement: every access to *)
(* a GPIO line or to a shared field of the object is one atomic step of    *)
(* the thread that makes it, and threads interleave between those steps.   *)
(* gpioMutex is the variable gate.  The two limit switches are inputs that *)
(* the environment may change at any moment.                               *)
(***************************************************************************)
EXTENDS Integers, Sequences, FiniteSets, TLC

(***************************************************************************)
(* Bounds of the model.                                                    *)
(***************************************************************************)
\* largest step count a caller passes to moveSteps / moveStepsAsync
MaxSteps == 2
\* largest step count of a move that runs beside another thread
ConcSteps == 1
\* a new call is only started while |_currentStepCount| <= MaxPos
MaxPos == 1
\* homing issues at most this many pulses before the lower switch asserts
MaxHomePulses == 1
\* constructor argument stepsPerRevolution (the driver passes 200)
SmallStepsPerRev == 2
\* constructor argument microstepping (the driver passes 8)
SmallMicrostepping == 2

None == "none"
\* no limit check of the call has read "triggered" yet
NoTrig == 0 - 1
\* no round trip is under way
NoTrip == [leg |-> 0, n |-> 0, c |-> 0, clean |-> TRUE]
\* no moveStepsOverDuration and no moveAngle is under way
NoSnap == [op |-> None, n |-> 0, seconds |-> 0, angle |-> 0, speed |-> <<0, 1>>,
           microstepping |-> 0, acceleration |-> 0]
Callers == {"a", "b"}
Workers == {"w", "v"}
Threads == Callers \cup Workers

StepInputs == (0 - 1) .. MaxSteps
DirInputs == {0, 1, 2}
AngleInputs == {0, 90}
DurationInputs == {1}

VARIABLES
    gate,            \* gpioMutex: the thread that holds it, or None
    enableLine,      \* enable_signal
    dirLine,         \* dir_signal
    stepLine,        \* step_signal
    limitTop,        \* limit_switch_top, as read by gpiod_line_get_value
    limitBottom,     \* limit_switch_bottom
    count,           \* _currentStepCount
    isMoving,        \* _isMoving
    speed,           \* _speed, a rational <<numerator, denominator>>
    microstepping,   \* _microstepping
    acceleration,    \* _acceleration
    stepsPerRevolution, \* _stepsPerRevolution
    pc,              \* per thread: the statement it executes next
    steps,           \* per thread: argument steps of moveSteps
    direction,       \* per thread: argument direction of moveSteps
    i,               \* per thread: loop index of internalMoveSteps
    stepDelay,       \* per thread: local stepDelay, microseconds
    load,            \* per thread: value of _currentStepCount read by ++ / --
    ret,             \* per thread: what the thread does after the current call
    c0,              \* history: _currentStepCount when the thread's call began
    trig,            \* history: index of the first check that read "triggered"
    hp,              \* history: pulses issued by the thread's homeMotor
    pulsed,          \* history: threads that issued a step edge in their call
    overtaken,       \* history: threads of pulsed another thread pulsed after
    cbCount,         \* history, per thread: callbacks it invoked since it was started
    trip,            \* history: the round trip under way, or NoTrip
    p0               \* history: the arguments of, and the parameters before, the
                     \* moveStepsOverDuration or moveAngle under way, or NoSnap

gpio == <<enableLine, dirLine, stepLine>>
sensors == <<limitTop, limitBottom>>
params == <<speed, microstepping, acceleration, stepsPerRevolution>>
fields == <<count, isMoving, params>>
locals == <<steps, direction, i, stepDelay, load, ret>>
history == <<c0, trig, hp, pulsed, overtaken, cbCount, trip, p0>>
vars == <<gate, gpio, sensors, fields, pc, locals, history>>

(***************************************************************************)
(* Arithmetic.  A float is modelled by the rational it stands for, kept as *)
(* <<numerator, denominator>> in lowest terms with denominator >= 0; a     *)
(* zero denominator is the float infinity (or NaN, for 0/0).               *)
(***************************************************************************)
Abs(x) == IF x < 0 THEN 0 - x ELSE x

RECURSIVE Gcd(_, _)
Gcd(x, y) == IF y = 0 THEN x ELSE Gcd(y, x % y)

Rat(num, den) ==
    LET s == IF den < 0 THEN 0 - 1 ELSE 1
        g == Gcd(Abs(num), Abs(den))
    IN  IF g = 0 THEN <<0, 0>> ELSE <<(s * num) \div g, (s * den) \div g>>

\* std::round: to the nearest integer, halves away from zero
Round(q) ==
    LET n == Abs(q[1])
        r == (2 * n + q[2]) \div (2 * q[2])
    IN  IF q[1] < 0 THEN 0 - r ELSE r

(***************************************************************************)
(* Single-precision arithmetic of moveAngle.  A positive float is          *)
(* <<m, k>>, standing for m * 2^(-k) with 2^23 <= m < 2^24; every result   *)
(* is rounded to the nearest such value, ties to the even m.  The          *)
(* operators take integers of less than 2^11 in magnitude for the angle    *)
(* and of less than 2^23 for the product stepsPerRevolution *              *)
(* microstepping.                                                          *)
(***************************************************************************)
RECURSIVE Pow2(_)
Pow2(n) == IF n = 0 THEN 1 ELSE 2 * Pow2(n - 1)

RECURSIVE BitLen(_)
BitLen(x) == IF x = 0 THEN 0 ELSE 1 + BitLen(x \div 2)

\* binary long division n / d, continued until the quotient has 24 bits
RECURSIVE FloatQuotient(_, _, _, _)
FloatQuotient(q, r, k, d) ==
    IF q >= Pow2(23)
      THEN <<q, r, k>>
      ELSE FloatQuotient(2 * q + (2 * r) \div d, (2 * r) % d, k + 1, d)

\* the float n / d of two positive integers
FloatDiv(n, d) ==
    LET t == FloatQuotient(n \div d, n % d, 0, d)
        up == 2 * t[2] > d \/ (2 * t[2] = d /\ t[1] % 2 = 1)
        q == IF up THEN t[1] + 1 ELSE t[1]
    IN  IF q = Pow2(24) THEN <<Pow2(23), t[3] - 1>> ELSE <<q, t[3]>>

\* the float a * f of a positive integer a and a float f; the exact
\* product is held as h * 2^12 + l
FloatMul(a, f) ==
    LET x == a * (f[1] % 4096)
        h == a * (f[1] \div 4096) + x \div 4096
        l == x % 4096
        s == BitLen(h) - 12
        m == h * Pow2(12 - s) + l \div Pow2(s)
        rest == l % Pow2(s)
        up == s >= 1 /\ (\/ 2 * rest > Pow2(s)
                         \/ 2 * rest = Pow2(s) /\ m % 2 = 1)
        q == IF up THEN m + 1 ELSE m
    IN  IF q = Pow2(24) THEN <<Pow2(23), f[2] - s - 1>> ELSE <<q, f[2] - s>>

\* std::round of a positive float, halves away from zero, as an int
FloatRound(f) ==
    IF f[2] <= 0 THEN f[1] * Pow2(0 - f[2])
    ELSE IF f[2] >= 25 THEN 0
    ELSE (f[1] + Pow2(f[2] - 1)) \div Pow2(f[2])

\* PiStepper::moveAngle, line 70:
\* int steps = std::round(angle * ((_stepsPerRevolution * _microstepping) / 360.0f))
MoveAngleSteps(angle, spr, micro) ==
    LET n == spr * micro
        sign == IF (angle < 0) = (n < 0) THEN 1 ELSE 0 - 1
    IN  IF angle = 0 \/ n = 0
          THEN 0
          ELSE sign * FloatRound(FloatMul(Abs(angle), FloatDiv(Abs(n), 360)))

\* PiStepper::moveAngle, the step count it passes on
AngleToSteps(angle, micro) == MoveAngleSteps(angle, stepsPerRevolution, micro)

\* PiStepper::moveStepsOverDuration, the speed it sets
DurationToRpm(n, seconds, micro) == Rat(n * 60, seconds * stepsPerRevolution * micro)

\* float stepDelay = 60.0 * 1000000 / (_speed * _stepsPerRevolution * _microstepping)
ComputeStepDelay(s, micro) == Rat(60 * 1000000 * s[2], s[1] * stepsPerRevolution * micro)

\* gpiod_line_set_value drives the line high for any non-zero value
LineValue(v) == IF v = 0 THEN 0 ELSE 1

\* #define FULL_COUNT_RANGE 1700
FULL_COUNT_RANGE == 1700

(***************************************************************************)
(* The state after the constructor, called with stepsPerRevolution = spr   *)
(* and microstepping = micro.                                              *)
(***************************************************************************)
Constructed(spr, micro) ==
    /\ gate = None
    /\ enableLine = 0
    /\ dirLine = 0
    /\ stepLine = 0
    /\ limitTop \in {0, 1}
    /\ limitBottom \in {0, 1}
    /\ count = 0
    /\ isMoving = FALSE
    /\ speed = <<20, 1>>
    /\ microstepping = micro
    /\ stepsPerRevolution = spr
    /\ acceleration = 80
    /\ pc = [t \in Threads |-> "idle"]
    /\ steps = [t \in Threads |-> 0]
    /\ direction = [t \in Threads |-> 0]
    /\ i = [t \in Threads |-> 0]
    /\ stepDelay = [t \in Threads |-> <<0, 1>>]
    /\ load = [t \in Threads |-> 0]
    /\ ret = [t \in Threads |-> "return"]
    /\ c0 = [t \in Threads |-> 0]
    /\ trig = [t \in Threads |-> NoTrig]
    /\ hp = [t \in Threads |-> 0]
    /\ pulsed = {}
    /\ overtaken = {}
    /\ cbCount = [t \in Threads |-> 0]
    /\ trip = NoTrip
    /\ p0 = NoSnap

Init == Constructed(SmallStepsPerRev, SmallMicrostepping)

(***************************************************************************)
(* Calls.  A caller thread that is between calls starts any public         *)
(* operation.  The history variables c0, trip and p0 are set by the        *)
(* specification that uses the call: see Untracked and Tracked.            *)
(***************************************************************************)
CanCall(t) == pc[t] = "idle" /\ t \in Callers
\* moves are started only while the counter, and every value of it that a
\* thread has read and not yet written back, is within MaxPos of zero
InRange == Abs(count) <= MaxPos /\ \A u \in Threads : Abs(load[u]) <= MaxPos

Begin(t, label, n, d, after) ==
    /\ pc' = [pc EXCEPT ![t] = label]
    /\ steps' = [steps EXCEPT ![t] = n]
    /\ direction' = [direction EXCEPT ![t] = d]
    /\ ret' = [ret EXCEPT ![t] = after]
    /\ trig' = [trig EXCEPT ![t] = NoTrig]
    /\ hp' = [hp EXCEPT ![t] = 0]
    /\ pulsed' = pulsed \ {t}
    /\ overtaken' = overtaken \ {t}
    /\ UNCHANGED <<gate, gpio, sensors, i, stepDelay, load>>

\* a call of moveSteps(n, d)
CallMoveSteps(t, n, d) ==
    /\ CanCall(t) /\ InRange
    /\ Begin(t, "ms_lock", n, d, "return")
    /\ UNCHANGED <<fields, cbCount>>

\* moveAngle(angle, d): line 70, then the call of moveSteps of line 71
CallMoveAngle(t, angle, d) ==
    /\ CanCall(t) /\ InRange
    /\ Begin(t, "ms_lock", AngleToSteps(angle, microstepping), d, "return")
    /\ UNCHANGED <<fields, cbCount>>

\* setSpeed(s), lines 46-48: _speed = s, with no test of s and no lock;
\* the call is over in this one step
setSpeed(t, s) ==
    /\ CanCall(t)
    /\ speed' = s
    /\ UNCHANGED <<gate, gpio, sensors, count, isMoving, microstepping, acceleration,
                   stepsPerRevolution>>
    /\ UNCHANGED <<pc, locals, history>>

\* setAcceleration(x), lines 50-52: _acceleration = x
setAcceleration(t, x) ==
    /\ CanCall(t)
    /\ acceleration' = x
    /\ UNCHANGED <<gate, gpio, sensors, count, isMoving, speed, microstepping,
                   stepsPerRevolution>>
    /\ UNCHANGED <<pc, locals, history>>

\* setMicrostepping(m), lines 93-95: _microstepping = m, with no test of m
\* and no lock
setMicrostepping(t, m) ==
    /\ CanCall(t)
    /\ microstepping' = m
    /\ UNCHANGED <<gate, gpio, sensors, count, isMoving, speed, acceleration,
                   stepsPerRevolution>>
    /\ UNCHANGED <<pc, locals, history>>

\* a faulty variant of moveStepsOverDuration: the speed is left as it was
CallMoveStepsOverDuration_keeps_speed(t, n, seconds) ==
    /\ CanCall(t) /\ InRange
    /\ Begin(t, "ms_lock", n, 1, "return")
    /\ UNCHANGED <<fields, cbCount>>

\* moveStepsOverDuration(n, seconds): lines 106-109, then moveSteps(n, 1)
CallMoveStepsOverDuration(t, n, seconds) ==
    /\ CanCall(t) /\ InRange
    /\ speed' = DurationToRpm(n, seconds, microstepping)
    /\ Begin(t, "ms_lock", n, 1, "return")
    /\ UNCHANGED <<count, isMoving, microstepping, acceleration, stepsPerRevolution, cbCount>>

\* a call of homeMotor()
CallHomeMotor(t) ==
    /\ CanCall(t)
    /\ Begin(t, "h_enable", 0, 0, "return")
    /\ UNCHANGED <<fields, cbCount>>

\* a call of calibrate(): homeMotor(), then moveSteps(FULL_COUNT_RANGE, 1)
CallCalibrate(t) ==
    /\ CanCall(t)
    /\ Begin(t, "h_enable", 0, 0, "calibrate")
    /\ UNCHANGED <<fields, cbCount>>

\* a call of stopMovement()
CallStopMovement(t) ==
    /\ CanCall(t)
    /\ Begin(t, "s_lock", 0, 0, "return")
    /\ UNCHANGED <<fields, cbCount>>

\* a call of emergencyStop()
CallEmergencyStop(t) ==
    /\ CanCall(t)
    /\ Begin(t, "e_lock", 0, 0, "return")
    /\ UNCHANGED <<fields, cbCount>>

\* a faulty variant of moveStepsAsync: the move and the callback run on the caller
moveStepsAsync_on_caller(t, w, n, d, hasCallback) ==
    /\ CanCall(t) /\ InRange
    /\ w \in Workers /\ pc[w] = "idle"
    /\ Begin(t, "ms_lock", n, d, IF hasCallback THEN "callback" ELSE "exit")
    /\ cbCount' = [cbCount EXCEPT ![w] = 0]
    /\ UNCHANGED fields

\* moveStepsAsync(n, d, callback): the std::thread is started and detached;
\* the caller goes on at once.  hasCallback is "if (callback)".
moveStepsAsync(t, w, n, d, hasCallback) ==
    /\ CanCall(t) /\ InRange
    /\ w \in Workers /\ pc[w] = "idle"
    /\ Begin(w, "ms_lock", n, d, IF hasCallback THEN "callback" ELSE "exit")
    /\ cbCount' = [cbCount EXCEPT ![w] = 0]
    /\ UNCHANGED fields

(***************************************************************************)
(* Steps of a thread inside an operation.                                  *)
(***************************************************************************)
Goto(t, label) == pc' = [pc EXCEPT ![t] = label]

\* the operation of t returns: its arguments and locals are gone
Finish(t) ==
    /\ pc' = [pc EXCEPT ![t] = "idle"]
    /\ steps' = [steps EXCEPT ![t] = 0]
    /\ direction' = [direction EXCEPT ![t] = 0]
    /\ i' = [i EXCEPT ![t] = 0]
    /\ stepDelay' = [stepDelay EXCEPT ![t] = <<0, 1>>]
    /\ load' = [load EXCEPT ![t] = 0]
    /\ ret' = [ret EXCEPT ![t] = "return"]
    /\ c0' = [c0 EXCEPT ![t] = 0]
    /\ trig' = [trig EXCEPT ![t] = NoTrig]
    /\ hp' = [hp EXCEPT ![t] = 0]
    /\ pulsed' = pulsed \ {t}
    /\ overtaken' = overtaken \ {t}

\* history: a limit check of t read `value` on the switch of `side`; the
\* first read of "triggered" (0) on the side t travels to is remembered
SeenAt(t, side, value, index) ==
    IF /\ trig[t] = NoTrig
       /\ value = 0
       /\ side = (IF direction[t] = 1 THEN "top" ELSE IF direction[t] = 0 THEN "bottom" ELSE None)
      THEN [trig EXCEPT ![t] = index]
      ELSE trig

\* a step-line edge by t: the threads that pulsed before it are overtaken
Edge(t) ==
    /\ pulsed' = pulsed \cup {t}
    /\ overtaken' = overtaken \cup (pulsed \ {t})

\* a faulty variant of ms_lock: moveSteps goes on without waiting for gpioMutex
ms_lock_without_waiting(t) ==
    /\ pc[t] = "ms_lock"
    /\ gate' = t
    /\ Goto(t, "ms_set")
    /\ UNCHANGED <<gpio, sensors, fields, locals, history>>

\* moveSteps, line 63: std::lock_guard<std::mutex> lock(gpioMutex)
ms_lock(t) ==
    /\ pc[t] = "ms_lock"
    /\ gate = None
    /\ gate' = t
    /\ Goto(t, "ms_set")
    /\ UNCHANGED <<gpio, sensors, fields, locals, history>>

\* moveSteps, line 64: _isMoving = true
ms_set(t) ==
    /\ pc[t] = "ms_set"
    /\ isMoving' = TRUE
    /\ Goto(t, "ims_enable")
    /\ UNCHANGED <<gate, gpio, sensors, count, params, locals, history>>

\* internalMoveSteps, line 114: enable()
ims_enable(t) ==
    /\ pc[t] = "ims_enable"
    /\ enableLine' = 1
    /\ Goto(t, "ims_dir")
    /\ UNCHANGED <<gate, dirLine, stepLine, sensors, fields, locals, history>>

\* internalMoveSteps, line 115: gpiod_line_set_value(dir_signal, direction)
ims_dir(t) ==
    /\ pc[t] = "ims_dir"
    /\ dirLine' = LineValue(direction[t])
    /\ Goto(t, "ims_delay")
    /\ UNCHANGED <<gate, enableLine, stepLine, sensors, fields, locals, history>>

\* internalMoveSteps, lines 117 and 119: stepDelay, and int i = 0
ims_delay(t) ==
    /\ pc[t] = "ims_delay"
    /\ stepDelay' = [stepDelay EXCEPT ![t] = ComputeStepDelay(speed, microstepping)]
    /\ i' = [i EXCEPT ![t] = 0]
    /\ Goto(t, "ims_top")
    /\ UNCHANGED <<gate, gpio, sensors, fields, steps, direction, load, ret, history>>

\* a faulty variant of ims_top: the break at the top switch leaves without disable()
ims_top_leaves_enabled(t) ==
    /\ pc[t] = "ims_top"
    /\ IF i[t] >= steps[t]
         THEN Goto(t, "ims_disable") /\ UNCHANGED trig
         ELSE /\ trig' = SeenAt(t, "top", limitTop, i[t])
              /\ IF limitTop = 0 /\ direction[t] = 1
                   THEN Goto(t, "ms_clear")
                   ELSE Goto(t, "ims_bottom")
    /\ UNCHANGED <<gate, gpio, sensors, fields, locals>>
    /\ UNCHANGED <<c0, hp, pulsed, overtaken, cbCount, trip, p0>>

\* a faulty variant of ims_top: the top switch stops a move in any direction
ims_top_any_direction(t) ==
    /\ pc[t] = "ims_top"
    /\ IF i[t] >= steps[t]
         THEN Goto(t, "ims_disable") /\ UNCHANGED trig
         ELSE /\ trig' = SeenAt(t, "top", limitTop, i[t])
              /\ IF limitTop = 0
                   THEN Goto(t, "ims_disable")
                   ELSE Goto(t, "ims_bottom")
    /\ UNCHANGED <<gate, gpio, sensors, fields, locals>>
    /\ UNCHANGED <<c0, hp, pulsed, overtaken, cbCount, trip, p0>>

\* a faulty variant of ims_top: the top switch stops every move but a backward one
ims_top_stops_not_backward(t) ==
    /\ pc[t] = "ims_top"
    /\ IF i[t] >= steps[t]
         THEN Goto(t, "ims_disable") /\ UNCHANGED trig
         ELSE /\ trig' = SeenAt(t, "top", limitTop, i[t])
              /\ IF limitTop = 0 /\ direction[t] # 0
                   THEN Goto(t, "ims_disable")
                   ELSE Goto(t, "ims_bottom")
    /\ UNCHANGED <<gate, gpio, sensors, fields, locals>>
    /\ UNCHANGED <<c0, hp, pulsed, overtaken, cbCount, trip, p0>>

\* internalMoveSteps, lines 119-123: the loop test, then the top switch
ims_top(t) ==
    /\ pc[t] = "ims_top"
    /\ IF i[t] >= steps[t]
         THEN Goto(t, "ims_disable") /\ UNCHANGED trig
         ELSE /\ trig' = SeenAt(t, "top", limitTop, i[t])
              /\ IF limitTop = 0 /\ direction[t] = 1
                   THEN Goto(t, "ims_disable")
                   ELSE Goto(t, "ims_bottom")
    /\ UNCHANGED <<gate, gpio, sensors, fields, locals>>
    /\ UNCHANGED <<c0, hp, pulsed, overtaken, cbCount, trip, p0>>

\* a faulty variant of ims_bottom: the bottom switch stops a move in any direction
ims_bottom_any_direction(t) ==
    /\ pc[t] = "ims_bottom"
    /\ trig' = SeenAt(t, "bottom", limitBottom, i[t])
    /\ IF limitBottom = 0
         THEN Goto(t, "ims_disable")
         ELSE Goto(t, "ims_high")
    /\ UNCHANGED <<gate, gpio, sensors, fields, locals>>
    /\ UNCHANGED <<c0, hp, pulsed, overtaken, cbCount, trip, p0>>

\* internalMoveSteps, lines 125-128: the bottom switch
ims_bottom(t) ==
    /\ pc[t] = "ims_bottom"
    /\ trig' = SeenAt(t, "bottom", limitBottom, i[t])
    /\ IF limitBottom = 0 /\ direction[t] = 0
         THEN Goto(t, "ims_disable")
         ELSE Goto(t, "ims_high")
    /\ UNCHANGED <<gate, gpio, sensors, fields, locals>>
    /\ UNCHANGED <<c0, hp, pulsed, overtaken, cbCount, trip, p0>>

\* a faulty variant of ims_high: the delay is computed anew for every pulse
ims_high_computes_delay(t) ==
    /\ pc[t] = "ims_high"
    /\ stepLine' = 1
    /\ stepDelay' = [stepDelay EXCEPT ![t] = ComputeStepDelay(speed, microstepping)]
    /\ Edge(t)
    /\ Goto(t, "ims_low")
    /\ UNCHANGED <<gate, enableLine, dirLine, sensors, fields>>
    /\ UNCHANGED <<steps, direction, i, load, ret>>
    /\ UNCHANGED <<c0, trig, hp, cbCount, trip, p0>>

\* internalMoveSteps, lines 130-131: step high, usleep(stepDelay / 2)
ims_high(t) ==
    /\ pc[t] = "ims_high"
    /\ stepLine' = 1
    /\ Edge(t)
    /\ Goto(t, "ims_low")
    /\ UNCHANGED <<gate, enableLine, dirLine, sensors, fields, locals>>
    /\ UNCHANGED <<c0, trig, hp, cbCount, trip, p0>>

\* internalMoveSteps, lines 132-133: step low, usleep(stepDelay / 2)
ims_low(t) ==
    /\ pc[t] = "ims_low"
    /\ stepLine' = 0
    /\ Edge(t)
    /\ Goto(t, "ims_load")
    /\ UNCHANGED <<gate, enableLine, dirLine, sensors, fields, locals>>
    /\ UNCHANGED <<c0, trig, hp, cbCount, trip, p0>>

\* internalMoveSteps, lines 135-139: the read of _currentStepCount-- / ++
ims_load(t) ==
    /\ pc[t] = "ims_load"
    /\ load' = [load EXCEPT ![t] = count]
    /\ Goto(t, "ims_store")
    /\ UNCHANGED <<gate, gpio, sensors, fields, steps, direction, i, stepDelay, ret, history>>

\* a faulty variant of ims_store: the counter is incremented in either direction
ims_store_always_increments(t) ==
    /\ pc[t] = "ims_store"
    /\ count' = load[t] + 1
    /\ i' = [i EXCEPT ![t] = i[t] + 1]
    /\ load' = [load EXCEPT ![t] = 0]
    /\ Goto(t, "ims_top")
    /\ UNCHANGED <<gate, gpio, sensors, isMoving, params>>
    /\ UNCHANGED <<steps, direction, stepDelay, ret, history>>

\* internalMoveSteps, lines 135-139: the write of it, then i++ of line 119
ims_store(t) ==
    /\ pc[t] = "ims_store"
    /\ count' = IF direction[t] = 0 THEN load[t] - 1 ELSE load[t] + 1
    /\ i' = [i EXCEPT ![t] = i[t] + 1]
    /\ load' = [load EXCEPT ![t] = 0]
    /\ Goto(t, "ims_top")
    /\ UNCHANGED <<gate, gpio, sensors, isMoving, params>>
    /\ UNCHANGED <<steps, direction, stepDelay, ret, history>>

\* internalMoveSteps, line 141: disable()
ims_disable(t) ==
    /\ pc[t] = "ims_disable"
    /\ enableLine' = 0
    /\ Goto(t, "ms_clear")
    /\ UNCHANGED <<gate, dirLine, stepLine, sensors, fields, locals, history>>

\* moveSteps, line 66: _isMoving = false
ms_clear(t) ==
    /\ pc[t] = "ms_clear"
    /\ isMoving' = FALSE
    /\ Goto(t, "ms_unlock")
    /\ UNCHANGED <<gate, gpio, sensors, count, params, locals, history>>

\* a faulty variant of ms_unlock: the callback is invoked with gpioMutex held
ms_unlock_after_callback(t) ==
    /\ pc[t] = "ms_unlock"
    /\ IF ret[t] = "callback"
         THEN /\ Goto(t, "async_cb")
              /\ UNCHANGED <<gate, locals, c0, trig, hp, pulsed, overtaken>>
         ELSE gate' = None /\ Finish(t)
    /\ UNCHANGED <<gpio, sensors, fields, cbCount, p0>>

\* moveSteps, line 67: the lock_guard releases gpioMutex and moveSteps
\* returns, to its caller or to line 147 of the thread of moveStepsAsync
ms_unlock(t) ==
    /\ pc[t] = "ms_unlock"
    /\ gate' = None
    /\ IF ret[t] = "callback"
         THEN Goto(t, "async_cb") /\ UNCHANGED <<locals, c0, trig, hp, pulsed, overtaken>>
         ELSE Finish(t)
    /\ UNCHANGED <<gpio, sensors, fields, cbCount, p0>>

\* moveStepsAsync, lines 147-149: callback()
async_cb(t) ==
    /\ pc[t] = "async_cb"
    /\ cbCount' = [cbCount EXCEPT ![t] = cbCount[t] + 1]
    /\ Finish(t)
    /\ UNCHANGED <<gate, gpio, sensors, fields, trip, p0>>

\* moveStepsAsync, lines 147-149: a callback that calls moveSteps(n, d)
\* (label "ms_lock"), stopMovement() ("s_lock") or emergencyStop()
\* ("e_lock") of the same object; the call runs on the started thread,
\* which ends when it returns
async_cb_calls(t, label, n, d) ==
    /\ pc[t] = "async_cb"
    /\ label \in {"ms_lock", "s_lock", "e_lock"}
    /\ cbCount' = [cbCount EXCEPT ![t] = cbCount[t] + 1]
    /\ Begin(t, label, n, d, "exit")
    /\ UNCHANGED fields

\* homeMotor, line 76: enable()
h_enable(t) ==
    /\ pc[t] = "h_enable"
    /\ enableLine' = 1
    /\ Goto(t, "h_dir")
    /\ UNCHANGED <<gate, dirLine, stepLine, sensors, fields, locals, history>>

\* homeMotor, lines 77-78: gpiod_line_set_value(dir_signal, 0)
h_dir(t) ==
    /\ pc[t] = "h_dir"
    /\ dirLine' = 0
    /\ Goto(t, "h_delay")
    /\ UNCHANGED <<gate, enableLine, stepLine, sensors, fields, locals, history>>

\* homeMotor, line 80: stepDelay
h_delay(t) ==
    /\ pc[t] = "h_delay"
    /\ stepDelay' = [stepDelay EXCEPT ![t] = ComputeStepDelay(speed, microstepping)]
    /\ Goto(t, "h_check")
    /\ UNCHANGED <<gate, gpio, sensors, fields, steps, direction, i, load, ret, history>>

\* homeMotor, line 83: while (gpiod_line_get_value(limit_switch_bottom) == 1)
h_check(t) ==
    /\ pc[t] = "h_check"
    /\ trig' = SeenAt(t, "bottom", limitBottom, hp[t])
    /\ IF limitBottom = 1
         THEN hp[t] < MaxHomePulses /\ Goto(t, "h_high")
         ELSE Goto(t, "h_reset")
    /\ UNCHANGED <<gate, gpio, sensors, fields, locals>>
    /\ UNCHANGED <<c0, hp, pulsed, overtaken, cbCount, trip, p0>>

\* homeMotor, lines 84-85: step high, usleep(stepDelay / 2)
h_high(t) ==
    /\ pc[t] = "h_high"
    /\ stepLine' = 1
    /\ Edge(t)
    /\ Goto(t, "h_low")
    /\ UNCHANGED <<gate, enableLine, dirLine, sensors, fields, locals>>
    /\ UNCHANGED <<c0, trig, hp, cbCount, trip, p0>>

\* homeMotor, lines 86-87: step low, usleep(stepDelay / 2)
h_low(t) ==
    /\ pc[t] = "h_low"
    /\ stepLine' = 0
    /\ Edge(t)
    /\ hp' = [hp EXCEPT ![t] = hp[t] + 1]
    /\ Goto(t, "h_check")
    /\ UNCHANGED <<gate, enableLine, dirLine, sensors, fields, locals>>
    /\ UNCHANGED <<c0, trig, cbCount, trip, p0>>

\* a faulty variant of h_reset: the counter is not reset at the home position
h_reset_keeps_count(t) ==
    /\ pc[t] = "h_reset"
    /\ Goto(t, "h_disable")
    /\ UNCHANGED <<gate, gpio, sensors, fields, locals, history>>

\* homeMotor, line 89: _currentStepCount = 0
h_reset(t) ==
    /\ pc[t] = "h_reset"
    /\ count' = 0
    /\ Goto(t, "h_disable")
    /\ UNCHANGED <<gate, gpio, sensors, isMoving, params, locals, history>>

\* a faulty variant of h_disable: the move of calibrate is a backward one
h_disable_then_backward(t) ==
    /\ pc[t] = "h_disable"
    /\ enableLine' = 0
    /\ IF ret[t] = "calibrate"
         THEN /\ Goto(t, "ms_lock")
              /\ steps' = [steps EXCEPT ![t] = FULL_COUNT_RANGE]
              /\ direction' = [direction EXCEPT ![t] = 0]
              /\ ret' = [ret EXCEPT ![t] = "return"]
              /\ c0' = [c0 EXCEPT ![t] = count]
              /\ trig' = [trig EXCEPT ![t] = NoTrig]
              /\ UNCHANGED <<i, stepDelay, load, hp, pulsed, overtaken>>
         ELSE Finish(t)
    /\ UNCHANGED <<gate, dirLine, stepLine, sensors, fields, cbCount, trip, p0>>

\* homeMotor, lines 90-91: disable(), and the return; calibrate goes on
\* with line 171, moveSteps(FULL_COUNT_RANGE, 1)
h_disable(t) ==
    /\ pc[t] = "h_disable"
    /\ enableLine' = 0
    /\ IF ret[t] = "calibrate"
         THEN /\ Goto(t, "ms_lock")
              /\ steps' = [steps EXCEPT ![t] = FULL_COUNT_RANGE]
              /\ direction' = [direction EXCEPT ![t] = 1]
              /\ ret' = [ret EXCEPT ![t] = "return"]
              /\ c0' = [c0 EXCEPT ![t] = count]
              /\ trig' = [trig EXCEPT ![t] = NoTrig]
              /\ UNCHANGED <<i, stepDelay, load, hp, pulsed, overtaken>>
         ELSE Finish(t)
    /\ UNCHANGED <<gate, dirLine, stepLine, sensors, fields, cbCount, trip, p0>>

\* a faulty variant of s_lock: stopMovement goes on without waiting for gpioMutex
s_lock_without_waiting(t) ==
    /\ pc[t] = "s_lock"
    /\ gate' = t
    /\ Goto(t, "s_clear")
    /\ UNCHANGED <<gpio, sensors, fields, locals, history>>

\* stopMovement, line 154: the lock_guard
s_lock(t) ==
    /\ pc[t] = "s_lock"
    /\ gate = None
    /\ gate' = t
    /\ Goto(t, "s_clear")
    /\ UNCHANGED <<gpio, sensors, fields, locals, history>>

\* stopMovement, line 155: _isMoving = false
s_clear(t) ==
    /\ pc[t] = "s_clear"
    /\ isMoving' = FALSE
    /\ Goto(t, "s_disable")
    /\ UNCHANGED <<gate, gpio, sensors, count, params, locals, history>>

\* stopMovement, line 156: disable()
s_disable(t) ==
    /\ pc[t] = "s_disable"
    /\ enableLine' = 0
    /\ Goto(t, "s_unlock")
    /\ UNCHANGED <<gate, dirLine, stepLine, sensors, fields, locals, history>>

\* stopMovement, line 157: the lock_guard releases gpioMutex; return
s_unlock(t) ==
    /\ pc[t] = "s_unlock"
    /\ gate' = None
    /\ Finish(t)
    /\ UNCHANGED <<gpio, sensors, fields, cbCount, trip, p0>>

\* emergencyStop, line 160: the lock_guard
e_lock(t) ==
    /\ pc[t] = "e_lock"
    /\ gate = None
    /\ gate' = t
    /\ Goto(t, "e_clear")
    /\ UNCHANGED <<gpio, sensors, fields, locals, history>>

\* emergencyStop, line 161: _isMoving = false
e_clear(t) ==
    /\ pc[t] = "e_clear"
    /\ isMoving' = FALSE
    /\ Goto(t, "e_disable")
    /\ UNCHANGED <<gate, gpio, sensors, count, params, locals, history>>

\* emergencyStop, line 162: disable()
e_disable(t) ==
    /\ pc[t] = "e_disable"
    /\ enableLine' = 0
    /\ Goto(t, "e_reset")
    /\ UNCHANGED <<gate, dirLine, stepLine, sensors, fields, locals, history>>

\* emergencyStop, line 163: _currentStepCount = 0
e_reset(t) ==
    /\ pc[t] = "e_reset"
    /\ count' = 0
    /\ Goto(t, "e_unlock")
    /\ UNCHANGED <<gate, gpio, sensors, isMoving, params, locals, history>>

\* emergencyStop, lines 164-165: the lock_guard releases gpioMutex; return
e_unlock(t) ==
    /\ pc[t] = "e_unlock"
    /\ gate' = None
    /\ Finish(t)
    /\ UNCHANGED <<gpio, sensors, fields, cbCount, trip, p0>>

(***************************************************************************)
(* The environment: a limit switch opens or closes.                        *)
(***************************************************************************)
TopSwitch ==
    /\ limitTop' = 1 - limitTop
    /\ UNCHANGED <<gate, gpio, limitBottom, fields, pc, locals, history>>

BottomSwitch ==
    /\ limitBottom' = 1 - limitBottom
    /\ UNCHANGED <<gate, gpio, limitTop, fields, pc, locals, history>>

(***************************************************************************)
(* Callers on several threads, and the thread of moveStepsAsync.           *)
(***************************************************************************)
MoveStepsBody(t) ==
    \/ ms_lock(t) \/ ms_set(t)
    \/ ims_enable(t) \/ ims_dir(t) \/ ims_delay(t)
    \/ ims_top(t) \/ ims_bottom(t)
    \/ ims_high(t) \/ ims_low(t) \/ ims_load(t) \/ ims_store(t)
    \/ ims_disable(t) \/ ms_clear(t)
    \/ ms_unlock(t) /\ UNCHANGED trip

HomeMotorBody(t) ==
    \/ h_enable(t) \/ h_dir(t) \/ h_delay(t) \/ h_check(t)
    \/ h_high(t) \/ h_low(t) \/ h_reset(t) \/ h_disable(t)

StopBody(t) ==
    \/ s_lock(t) \/ s_clear(t) \/ s_disable(t) \/ s_unlock(t)
    \/ e_lock(t) \/ e_clear(t) \/ e_disable(t) \/ e_reset(t) \/ e_unlock(t)

\* history: the counter at the start of a call is not recorded / is recorded
Untracked == UNCHANGED <<c0, trip, p0>>
Tracked(t) == c0' = [c0 EXCEPT ![t] = count] /\ UNCHANGED <<trip, p0>>

(***************************************************************************)
(* Spec: two caller threads, each running blocking operations.             *)
(***************************************************************************)
Next ==
    \/ \E t \in Callers, n \in 0 .. ConcSteps, d \in {0, 1} :
          CallMoveSteps(t, n, d) /\ Untracked
    \/ \E t \in Callers, angle \in AngleInputs, d \in {0, 1} :
          CallMoveAngle(t, angle, d) /\ Untracked
    \/ \E t \in Callers : CallHomeMotor(t) /\ Untracked
    \/ \E t \in Callers : CallStopMovement(t) /\ Untracked
    \/ \E t \in Callers : CallEmergencyStop(t) /\ Untracked
    \/ \E t \in Callers : MoveStepsBody(t) \/ HomeMotorBody(t) \/ StopBody(t)
    \/ TopSwitch
    \/ BottomSwitch

Spec == Init /\ [][Next]_vars

(***************************************************************************)
(* SpecAsync: one caller thread, and the thread that moveStepsAsync        *)
(* starts.                                                                 *)
(***************************************************************************)
NextAsync ==
    \/ \E n \in 0 .. ConcSteps, d \in {0, 1}, hasCallback \in BOOLEAN :
          moveStepsAsync("a", "w", n, d, hasCallback) /\ Untracked
    \/ \E n \in 0 .. ConcSteps, d \in {0, 1} : CallMoveSteps("a", n, d) /\ Untracked
    \/ CallStopMovement("a") /\ Untracked
    \/ CallEmergencyStop("a") /\ Untracked
    \/ \E t \in {"a", "w"} : MoveStepsBody(t)
    \/ StopBody("a")
    \/ async_cb("w")
    \/ TopSwitch
    \/ BottomSwitch

SpecAsync == Init /\ [][NextAsync]_vars

(***************************************************************************)
(* SpecSpawn: one caller thread that only calls moveStepsAsync, and the    *)
(* two threads it starts.                                                  *)
(***************************************************************************)
NextSpawn ==
    \/ \E w \in Workers, n \in 0 .. ConcSteps, d \in {0, 1}, hasCallback \in BOOLEAN :
          moveStepsAsync("a", w, n, d, hasCallback) /\ Untracked
    \/ \E w \in Workers : MoveStepsBody(w)
    \/ \E w \in Workers : async_cb(w)
    \/ TopSwitch
    \/ BottomSwitch

SpecSpawn == Init /\ [][NextSpawn]_vars

(***************************************************************************)
(* SpecSeq: one caller thread that runs one blocking operation after the   *)
(* other, with every argument value, and records the counter at each call. *)
(***************************************************************************)
NextSeq ==
    \/ \E n \in StepInputs, d \in DirInputs : CallMoveSteps("a", n, d) /\ Tracked("a")
    \/ \E angle \in AngleInputs, d \in DirInputs :
          CallMoveAngle("a", angle, d) /\ Tracked("a")
    \/ \E n \in StepInputs, seconds \in DurationInputs :
          CallMoveStepsOverDuration("a", n, seconds) /\ Tracked("a")
    \/ CallHomeMotor("a") /\ Tracked("a")
    \/ CallStopMovement("a") /\ Tracked("a")
    \/ CallEmergencyStop("a") /\ Tracked("a")
    \/ MoveStepsBody("a")
    \/ HomeMotorBody("a")
    \/ StopBody("a")
    \/ TopSwitch
    \/ BottomSwitch

SpecSeq == Init /\ [][NextSeq]_vars

(***************************************************************************)
(* SpecParams: one caller thread that sets the motion parameters between   *)
(* its moves and homings.  p0 holds the arguments of a                     *)
(* moveStepsOverDuration and the parameters it found.                      *)
(***************************************************************************)
SpeedInputs == {<<0, 1>>, <<60, 1>>}
MicroInputs == {0, 1}
AccelInputs == {100}
TimedDurations == {1, 2}

TrackedPlain(t) ==
    c0' = [c0 EXCEPT ![t] = count] /\ p0' = NoSnap /\ UNCHANGED trip
TrackedTimed(t, n, seconds) ==
    /\ c0' = [c0 EXCEPT ![t] = count]
    /\ p0' = [op |-> "moveStepsOverDuration", n |-> n, seconds |-> seconds,
              angle |-> 0, speed |-> speed, microstepping |-> microstepping,
              acceleration |-> acceleration]
    /\ UNCHANGED trip

NextParams ==
    \/ \E s \in SpeedInputs : setSpeed("a", s)
    \/ \E m \in MicroInputs : setMicrostepping("a", m)
    \/ \E x \in AccelInputs : setAcceleration("a", x)
    \/ \E n \in 0 .. ConcSteps : CallMoveSteps("a", n, 1) /\ TrackedPlain("a")
    \/ \E n \in 0 .. MaxSteps, seconds \in TimedDurations :
          CallMoveStepsOverDuration("a", n, seconds) /\ TrackedTimed("a", n, seconds)
    \/ CallHomeMotor("a") /\ TrackedPlain("a")
    \/ MoveStepsBody("a")
    \/ HomeMotorBody("a")
    \/ TopSwitch
    \/ BottomSwitch

SpecParams == Init /\ [][NextParams]_vars

(***************************************************************************)
(* SpecTiming: thread a moves and homes while thread b sets the speed and  *)
(* the microstepping.                                                      *)
(***************************************************************************)
NextTiming ==
    \/ \E s \in SpeedInputs : setSpeed("b", s)
    \/ \E m \in MicroInputs : setMicrostepping("b", m)
    \/ \E n \in 0 .. MaxSteps, d \in {0, 1} : CallMoveSteps("a", n, d) /\ Untracked
    \/ CallHomeMotor("a") /\ Untracked
    \/ MoveStepsBody("a")
    \/ HomeMotorBody("a")
    \/ TopSwitch
    \/ BottomSwitch

SpecTiming == Init /\ [][NextTiming]_vars

(***************************************************************************)
(* SpecAngle: objects constructed with the geometry of the driver          *)
(* program, 200 x 8, and with 105 x 1; one caller thread calls             *)
(* moveAngle(angle, 1).  p0 holds the angle.                               *)
(***************************************************************************)
GeometryInputs == {<<200, 8>>, <<105, 1>>}
TurnInputs == {90, 108, 360}

InitAngle == \E g \in GeometryInputs : Constructed(g[1], g[2])

TrackedAngle(t, angle) ==
    /\ c0' = [c0 EXCEPT ![t] = count]
    /\ p0' = [op |-> "moveAngle", n |-> 0, seconds |-> 0, angle |-> angle,
              speed |-> speed, microstepping |-> microstepping,
              acceleration |-> acceleration]
    /\ UNCHANGED trip

NextAngle ==
    \/ \E angle \in TurnInputs : CallMoveAngle("a", angle, 1) /\ TrackedAngle("a", angle)
    \/ MoveStepsBody("a")
    \/ TopSwitch
    \/ BottomSwitch

SpecAngle == InitAngle /\ [][NextAngle]_vars

(***************************************************************************)
(* SpecCalibrate: one caller thread that calls calibrate(), again and      *)
(* again.  p0 marks the calibrate under way.                               *)
(***************************************************************************)
TrackedCalibrate(t) ==
    /\ c0' = [c0 EXCEPT ![t] = count]
    /\ p0' = [NoSnap EXCEPT !.op = "calibrate"]
    /\ UNCHANGED trip

NextCalibrate ==
    \/ CallCalibrate("a") /\ TrackedCalibrate("a")
    \/ HomeMotorBody("a")
    \/ MoveStepsBody("a")
    \/ TopSwitch
    \/ BottomSwitch

SpecCalibrate == Init /\ [][NextCalibrate]_vars

(***************************************************************************)
(* SpecLive: thread a moves and homes while thread b calls stopMovement    *)
(* and emergencyStop.  Thread a is scheduled fairly: it takes a step of    *)
(* its operation when it has one to take; nothing is assumed of the        *)
(* switches and of thread b.                                               *)
(***************************************************************************)
NextLive ==
    \/ \E n \in 0 .. MaxSteps, d \in {0, 1} : CallMoveSteps("a", n, d) /\ Untracked
    \/ CallHomeMotor("a") /\ Untracked
    \/ CallStopMovement("b") /\ Untracked
    \/ CallEmergencyStop("b") /\ Untracked
    \/ MoveStepsBody("a")
    \/ HomeMotorBody("a")
    \/ StopBody("b")
    \/ TopSwitch
    \/ BottomSwitch

SpecLive ==
    /\ Init /\ [][NextLive]_vars
    /\ WF_vars(MoveStepsBody("a"))
    /\ WF_vars(HomeMotorBody("a"))

(***************************************************************************)
(* SpecFair: a caller thread that homes, calls stopMovement and calls      *)
(* moveStepsAsync(1, 1, callback), and the thread that moveStepsAsync      *)
(* starts, whose callback may call moveSteps(1, 1), stopMovement or        *)
(* emergencyStop, or none of them.  Scheduling                             *)
(* is fair: a thread takes a step of its operation when it has one to      *)
(* take, and a thread that waits for gpioMutex gets it when the mutex is   *)
(* free again and again.                                                   *)
(***************************************************************************)
CallbackCalls(t) ==
    \/ async_cb_calls(t, "ms_lock", 1, 1) /\ Untracked
    \/ async_cb_calls(t, "s_lock", 0, 0) /\ Untracked
    \/ async_cb_calls(t, "e_lock", 0, 0) /\ Untracked

ThreadStep(t) ==
    MoveStepsBody(t) \/ HomeMotorBody(t) \/ StopBody(t) \/ async_cb(t) \/ CallbackCalls(t)

NextFair ==
    \/ moveStepsAsync("a", "w", 1, 1, TRUE) /\ Untracked
    \/ CallHomeMotor("a") /\ Untracked
    \/ CallStopMovement("a") /\ Untracked
    \/ HomeMotorBody("a") \/ StopBody("a")
    \/ MoveStepsBody("w") \/ StopBody("w")
    \/ async_cb("w")
    \/ CallbackCalls("w")
    \/ TopSwitch
    \/ BottomSwitch

SpecFair ==
    /\ Init /\ [][NextFair]_vars
    /\ \A t \in {"a", "w"} :
          /\ WF_vars(ThreadStep(t))
          /\ SF_vars(ms_lock(t) \/ s_lock(t) \/ e_lock(t))

(***************************************************************************)
(* SpecTrip: one caller thread that runs moveSteps(n, 1) and then at once  *)
(* moveSteps(n, 0), again and again.  trip holds n, the counter before the *)
(* first call, and whether no limit check of the trip has read             *)
(* "triggered".                                                            *)
(***************************************************************************)
TripOut(t, n) ==
    /\ trip.leg \in {0, 2}
    /\ CallMoveSteps(t, n, 1)
    /\ trip' = [leg |-> 1, n |-> n, c |-> count, clean |-> TRUE]
    /\ c0' = [c0 EXCEPT ![t] = count]
    /\ UNCHANGED p0

TripBack(t) ==
    /\ trip.leg = 1
    /\ CallMoveSteps(t, trip.n, 0)
    /\ trip' = [trip EXCEPT !.leg = 2]
    /\ c0' = [c0 EXCEPT ![t] = count]
    /\ UNCHANGED p0

TripReturn(t) ==
    /\ ms_unlock(t)
    /\ trip' = [trip EXCEPT !.clean = trip.clean /\ trig[t] = NoTrig]

NextTrip ==
    \/ \E n \in 0 .. MaxSteps : TripOut("a", n)
    \/ TripBack("a")
    \/ ms_lock("a") \/ ms_set("a")
    \/ ims_enable("a") \/ ims_dir("a") \/ ims_delay("a")
    \/ ims_top("a") \/ ims_bottom("a")
    \/ ims_high("a") \/ ims_low("a") \/ ims_load("a") \/ ims_store("a")
    \/ ims_disable("a") \/ ms_clear("a")
    \/ TripReturn("a")
    \/ TopSwitch
    \/ BottomSwitch

SpecTrip == Init /\ [][NextTrip]_vars

(***************************************************************************)
(* Vocabulary of the claims.                                               *)
(***************************************************************************)
\* t is inside internalMoveSteps, after its enable() and before its disable()
InEngine(t) ==
    pc[t] \in {"ims_dir", "ims_delay", "ims_top", "ims_bottom", "ims_high",
               "ims_low", "ims_load", "ims_store", "ims_disable"}

\* t is inside homeMotor, after its enable() and before its disable()
InHoming(t) ==
    pc[t] \in {"h_dir", "h_delay", "h_check", "h_high", "h_low", "h_reset", "h_disable"}

\* t is inside stopMovement or emergencyStop
InStop(t) ==
    pc[t] \in {"s_lock", "s_clear", "s_disable", "s_unlock",
               "e_lock", "e_clear", "e_disable", "e_reset", "e_unlock"}

\* the next statement of t raises or lowers the step line
AtEdge(t) == pc[t] \in {"ims_high", "ims_low", "h_high", "h_low"}

\* t is between the first and the last write of its operation to the
\* counter or to an output line, or about to make one of them
Writing(t) ==
    \/ pc[t] = "ims_enable" \/ InEngine(t)
    \/ pc[t] = "h_enable" \/ InHoming(t)
    \/ pc[t] \in {"s_disable", "e_disable", "e_reset"}

\* this step is a step of thread t
StepOf(t) == pc'[t] # pc[t]

(***************************************************************************)
(* C1.  The pulse sequences of two blocking motion calls on two threads    *)
(* never interleave: no thread issues a step-line edge after another       *)
(* thread has issued one since the first edge of its own call.             *)
(* homeMotor takes no lock, so the code does not keep this.                *)
(***************************************************************************)
C1_NoInterleavedPulses ==
    [][\A t \in Threads : AtEdge(t) /\ StepOf(t) => t \notin overtaken]_vars

(***************************************************************************)
(* C2.  A thread that writes the Position Counter or an output line in a   *)
(* motion operation holds the Gate, from the first such write of the       *)
(* operation to the last.  homeMotor writes them without the Gate.         *)
(***************************************************************************)
C2_WritesHoldGate == \A t \in Threads : Writing(t) => gate = t

(***************************************************************************)
(* C3.  The thread of moveStepsAsync and a thread in a blocking moveSteps  *)
(* are never both inside the pulse engine.                                 *)
(***************************************************************************)
C3_AsyncMutualExclusion ==
    \A t \in Threads, u \in Threads : t # u => ~(InEngine(t) /\ InEngine(u))

\* the async move is in the engine while the caller's moveSteps waits
C3_Witness == InEngine("w") /\ pc["w"] = "ims_low" /\ pc["a"] = "ms_lock"

C5_EmergencyStopPostcondition ==
    [][\A t \in Threads : pc[t] = "e_unlock" /\ StepOf(t) =>
          isMoving' = FALSE /\ enableLine' = 0 /\ count' = 0]_vars

(***************************************************************************)
(* C6.  moveSteps(n, d) with n >= 0 and d in {0, 1}, started with the      *)
(* Position Counter at c: a pulse is issued only while no check of the     *)
(* switch on the side of travel has read "triggered"; the move issues      *)
(* k pulses, k = n if no such check read "triggered" and otherwise the     *)
(* index of the first one that did; the counter ends at c + k (d = 1) or   *)
(* c - k (d = 0).  The switch of the other side does not stop the move.    *)
(***************************************************************************)
C6_PulsesAndCounter ==
    \A t \in Threads :
        steps[t] >= 0 /\ direction[t] \in {0, 1} =>
            /\ pc[t] \in {"ims_high", "ims_low", "ims_load", "ims_store"} =>
                  trig[t] = NoTrig
            /\ pc[t] \in {"ms_clear", "ms_unlock"} =>
                  LET k == IF trig[t] = NoTrig THEN steps[t] ELSE trig[t]
                  IN  /\ i[t] = k
                      /\ count = c0[t] + (IF direction[t] = 1 THEN k ELSE 0 - k)

\* a backward move of two steps, stopped at its second check, has returned
C6_Witness ==
    /\ pc["a"] = "ms_unlock"
    /\ steps["a"] = 2 /\ direction["a"] = 0
    /\ trig["a"] = 1 /\ i["a"] = 1
    /\ c0["a"] # 0 /\ count = c0["a"] - 1

(***************************************************************************)
(* C7.  Round trip: moveSteps(n, 1) followed at once by moveSteps(n, 0),   *)
(* no limit check of either having read "triggered", leaves the Position   *)
(* Counter at the value it had before the first call.                      *)
(***************************************************************************)
C7_RoundTrip ==
    pc["a"] = "idle" /\ trip.leg = 2 /\ trip.clean => count = trip.c

\* a round trip of two steps each way, from a counter other than 0, is over
C7_Witness ==
    /\ pc["a"] = "idle" /\ trip.leg = 2 /\ trip.clean
    /\ trip.n = 2 /\ trip.c # 0 /\ count = trip.c

C9_AsyncReturnsAtOnce ==
    /\ [](\A t \in Threads : ret[t] \in {"callback", "exit"} => t \in Workers)
    /\ [](\A w \in Workers : pc[w] = "async_cb" => gate # w /\ cbCount[w] = 0)
    /\ [](\A w \in Workers : cbCount[w] # 0 => cbCount[w] = 1 /\ pc[w] = "idle")
    /\ [][\A w \in Workers : pc[w] = "idle" /\ StepOf(w) =>
            pc["a"] = "idle" /\ pc'["a"] = "idle" /\ gate' = gate]_vars
    /\ [][\A w \in Workers : pc'[w] = "idle" /\ StepOf(w) =>
            cbCount'[w] = (IF ret[w] = "callback" THEN 1 ELSE 0)]_vars

\* one started thread has moved and invoked its callback; the caller is
\* back from starting the other, which waits for the Gate that a move holds
C9_Witness ==
    \E w \in Workers, u \in Threads \ {"a"} :
        /\ pc["a"] = "idle"
        /\ pc[w] = "ms_lock" /\ gate = u /\ pc[u] = "ims_low"
        /\ cbCount[u] = 0 /\ ret[u] = "callback"

(***************************************************************************)
(* C10.  The step by which a thread leaves internalMoveSteps, after all    *)
(* the steps or at a limit switch, and the step by which it leaves         *)
(* homeMotor, leave the enable line inactive.                              *)
(***************************************************************************)
C10_ExitDisables ==
    [][\A t \in Threads :
          \/ (pc[t] = "ims_enable" \/ InEngine(t)) /\
                pc'[t] \in {"ms_clear", "ms_unlock", "async_cb", "idle"}
          \/ (pc[t] = "h_enable" \/ InHoming(t)) /\ pc'[t] \in {"idle", "ms_lock"}
          => enableLine' = 0]_vars

\* a move that a limit switch stopped short has left the engine
C10_Witness ==
    \E t \in Threads :
        pc[t] = "ms_clear" /\ i[t] < steps[t] /\ trig[t] # NoTrig /\ enableLine = 0

(***************************************************************************)
(* C11.  A pulse of moveSteps(n, d) is issued only while fewer than n      *)
(* have been; the loop is left only when n pulses are done or the check    *)
(* of the switch on the side of travel reads "triggered", whatever         *)
(* another thread's stopMovement or emergencyStop does; a move that holds  *)
(* the Gate returns.  homeMotor returns only after a check of the lower    *)
(* switch read "triggered", and it does return if the lower switch         *)
(* stays triggered from some moment on.                                    *)
(***************************************************************************)
InLoop(t) == pc[t] \in {"ims_top", "ims_bottom", "ims_high", "ims_low",
                        "ims_load", "ims_store"}

ExactAngleSteps == Round(Rat(p0.angle * stepsPerRevolution * microstepping, 360))

C12_MoveAngleSteps ==
    p0.op = "moveAngle" /\ pc["a"] # "idle" =>
        /\ steps["a"] = ExactAngleSteps
        /\ pc["a"] \in {"ms_clear", "ms_unlock"} /\ trig["a"] = NoTrig =>
              i["a"] = ExactAngleSteps /\ count = c0["a"] + ExactAngleSteps

\* the two instances of C12: moveAngle(360, 1) passes stepsPerRevolution *
\* microstepping steps, and with 200 x 8 moveAngle(90, 1) passes 400; with
\* no check of the upper switch reading "triggered" that many pulses are
\* issued and counted
C12_Instances ==
    p0.op = "moveAngle" /\ pc["a"] # "idle" =>
        /\ p0.angle = 360 => steps["a"] = stepsPerRevolution * microstepping
        /\ p0.angle = 90 /\ stepsPerRevolution = 200 /\ microstepping = 8 =>
              steps["a"] = 400
        /\ pc["a"] \in {"ms_clear", "ms_unlock"} /\ trig["a"] = NoTrig =>
              i["a"] = steps["a"] /\ count = c0["a"] + steps["a"]

\* with 200 x 8, moveAngle(90, 1) has issued 400 pulses
C12_InstanceWitness ==
    /\ p0.op = "moveAngle" /\ p0.angle = 90 /\ stepsPerRevolution = 200
    /\ pc["a"] = "ms_unlock" /\ i["a"] = 400 /\ count = 400

(***************************************************************************)
(* C13.  While moveStepsOverDuration(n, seconds) runs, and in the step by  *)
(* which it returns, the speed is (n / seconds) * 60 /                     *)
(* (stepsPerRevolution * microstepping), whatever it was before; the move  *)
(* is moveSteps(n, 1); the delay of its pulses is the one computed from    *)
(* that speed, so that for n > 0, seconds > 0 and a positive geometry the  *)
(* n pulses take seconds * 1000000 microseconds; microstepping and         *)
(* acceleration are the ones the call found, and only the call of the      *)
(* operation writes the speed.                                             *)
(***************************************************************************)
DerivedRpm == Rat(p0.n * 60, p0.seconds * stepsPerRevolution * p0.microstepping)

C13_OverDuration ==
    /\ [](p0.op = "moveStepsOverDuration" /\ pc["a"] # "idle" =>
            /\ speed = DerivedRpm
            /\ steps["a"] = p0.n /\ direction["a"] = 1
            /\ microstepping = p0.microstepping
            /\ acceleration = p0.acceleration
            /\ pc["a"] \in {"ims_top", "ims_bottom", "ims_high", "ims_low",
                            "ims_load", "ims_store", "ims_disable"} =>
                  /\ stepDelay["a"] =
                        Rat(60 * 1000000 * DerivedRpm[2],
                            DerivedRpm[1] * stepsPerRevolution * p0.microstepping)
                  /\ p0.n > 0 /\ p0.seconds > 0 /\ p0.microstepping > 0 =>
                        stepDelay["a"][1] * p0.n =
                            p0.seconds * 1000000 * stepDelay["a"][2])
    /\ [][p0.op = "moveStepsOverDuration" /\ pc["a"] # "idle" =>
            /\ speed' = speed
            /\ pc'["a"] = "idle" =>
                  microstepping' = p0.microstepping /\ acceleration' = p0.acceleration]_vars

\* a move of two steps over one second, called at another speed and after
\* setAcceleration, is about to return
C13_Witness ==
    /\ p0.op = "moveStepsOverDuration" /\ pc["a"] = "ms_unlock"
    /\ p0.n = 2 /\ p0.seconds = 1 /\ i["a"] = 2
    /\ p0.speed # speed /\ speed = <<30, 1>>
    /\ acceleration = 100

(***************************************************************************)
(* C14.  calibrate() runs homeMotor and then moveSteps(FULL_COUNT_RANGE,   *)
(* 1), which starts with the Position Counter at 0; the counter that       *)
(* calibrate reports when that move has returned is the number of pulses   *)
(* the move issued, a value in 0 .. FULL_COUNT_RANGE, and it is            *)
(* FULL_COUNT_RANGE exactly when no check of the upper switch by the move  *)
(* read "triggered".                                                       *)
(***************************************************************************)
C14_Calibrate ==
    p0.op = "calibrate" /\ pc["a"] # "idle" =>
        /\ pc["a"] = "h_enable" \/ InHoming("a") => ret["a"] = "calibrate"
        /\ ~(pc["a"] = "h_enable" \/ InHoming("a")) =>
              /\ steps["a"] = FULL_COUNT_RANGE /\ direction["a"] = 1
              /\ c0["a"] = 0
              /\ pc["a"] \in {"ms_clear", "ms_unlock"} =>
                    /\ count = i["a"]
                    /\ count \in 0 .. FULL_COUNT_RANGE
                    /\ count = FULL_COUNT_RANGE <=> trig["a"] = NoTrig

\* the move of a calibrate has issued all its pulses, the upper switch
\* never read "triggered"
C14_Witness ==
    /\ p0.op = "calibrate" /\ pc["a"] = "ms_unlock"
    /\ trig["a"] = NoTrig /\ count = FULL_COUNT_RANGE /\ i["a"] = 1700

\* a calibrate was stopped at the upper switch after three pulses
C14_WitnessStopped ==
    /\ p0.op = "calibrate" /\ pc["a"] = "ms_unlock"
    /\ trig["a"] = 3 /\ count = 3

(***************************************************************************)
(* C15.  The stored speed is only ever replaced by a positive one and the  *)
(* stored microstepping only by one that keeps stepsPerRevolution *        *)
(* microstepping positive; the delay of the pulses is computed, by a move  *)
(* and by a homing, only with a positive speed and a positive geometry.    *)
(***************************************************************************)
Positive(q) == q[1] > 0 /\ q[2] > 0

C15_InvalidParameterRejected ==
    /\ [][speed' # speed => Positive(speed')]_vars
    /\ [][microstepping' # microstepping =>
            stepsPerRevolution * microstepping' > 0]_vars
    /\ [][\A t \in Threads : pc[t] \in {"ims_delay", "h_delay"} /\ StepOf(t) =>
            Positive(speed) /\ stepsPerRevolution * microstepping > 0]_vars

(***************************************************************************)
(* C16.  Signal sequencing of a move and of a homing: the step that sets   *)
(* the direction line is taken with the enable line active; a rising edge  *)
(* of the step line is made with the enable line active and the direction  *)
(* line carrying the direction of the call that makes it (0 for a          *)
(* homing); the step line is low at every limit check and when the         *)
(* operation returns.                                                      *)
(***************************************************************************)
C16_SignalSequencing ==
    /\ [][\A t \in Threads :
            /\ pc[t] \in {"ims_dir", "h_dir"} /\ StepOf(t) => enableLine = 1
            /\ pc[t] \in {"ims_high", "h_high"} /\ StepOf(t) =>
                  enableLine = 1 /\ dirLine = LineValue(direction[t])
            /\ (InEngine(t) \/ InHoming(t) \/ pc[t] \in {"ms_clear", "ms_unlock"})
                  /\ pc'[t] \in {"idle", "async_cb"} => stepLine' = 0]_vars
    /\ [](\A t \in Threads :
            pc[t] \in {"ims_top", "ims_bottom", "h_check"} => stepLine = 0)

\* alone on the lines, a forward move makes a rising edge with the enable
\* line active and the direction line at 1
C16_AloneWitness ==
    /\ pc["a"] = "ims_low" /\ direction["a"] = 1
    /\ stepLine = 1 /\ enableLine = 1 /\ dirLine = 1

(***************************************************************************)
(* C17.  A move computes its stepDelay in one step, holding the Gate,      *)
(* from the speed and the microstepping of that moment, and a homing       *)
(* from those at its line 80; from then until the operation returns no     *)
(* step of any thread, a setSpeed or setMicrostepping of another thread    *)
(* included, changes that stepDelay.                                       *)
(***************************************************************************)
DelayFixed(t) ==
    pc[t] \in {"ims_top", "ims_bottom", "ims_high", "ims_low", "ims_load",
               "ims_store", "ims_disable", "h_check", "h_high", "h_low",
               "h_reset", "h_disable"}

C17_DelayFixedOnEntry ==
    /\ [](\A t \in Threads : pc[t] = "ims_delay" => gate = t)
    /\ [][\A t \in Threads :
            /\ pc[t] \in {"ims_delay", "h_delay"} /\ StepOf(t) =>
                  stepDelay'[t] = Rat(60 * 1000000 * speed[2],
                                      speed[1] * stepsPerRevolution * microstepping)
            /\ DelayFixed(t) /\ DelayFixed(t)' => stepDelay'[t] = stepDelay[t]]_vars

\* a move is about to issue its second pulse with the delay it computed,
\* which is no longer the one of the stored speed and microstepping
C17_Witness ==
    /\ pc["a"] = "ims_high" /\ i["a"] = 1
    /\ stepDelay["a"] = <<750000, 1>>
    /\ stepDelay["a"] # ComputeStepDelay(speed, microstepping)

(***************************************************************************)
(* C18.  A thread that is about to lock gpioMutex does not hold it, and    *)
(* the callback of moveStepsAsync is invoked by a thread that does not     *)
(* hold it.  Under fair scheduling, if every homing comes to read its      *)
(* lower switch as triggered, every operation that was called returns,     *)
(* that of a callback which calls moveSteps, stopMovement or               *)
(* emergencyStop included, and a held Gate is released.                    *)
(***************************************************************************)
\* thread a is the one that homes
EveryHomingSeesSwitch == (pc["a"] = "h_check") ~> (pc["a"] = "h_reset")

C18_NoSelfDeadlock ==
    /\ [](\A t \in Threads :
            pc[t] \in {"ms_lock", "s_lock", "e_lock", "async_cb"} => gate # t)
    /\ EveryHomingSeesSwitch =>
          /\ \A t \in {"a", "w"} : (pc[t] # "idle") ~> (pc[t] = "idle")
          /\ (gate # None) ~> (gate = None)

\* the callback of a move has called moveSteps, which waits for the Gate
\* that the caller thread's stopMovement holds
C18_Witness ==
    /\ pc["w"] = "ms_lock" /\ ret["w"] = "exit" /\ cbCount["w"] = 1
    /\ gate = "a" /\ pc["a"] = "s_clear"

(***************************************************************************)
(* C19.  moveSteps(n, d) with d other than 0 and 1 and n >= 0 is stopped   *)
(* by neither limit switch: it issues all n pulses and the Position        *)
(* Counter ends n higher.  A store of the counter by the engine is a       *)
(* decrement exactly when d = 0, and an increment otherwise.  With n < 0   *)
(* no pulse is issued and the counter is left alone, and the enable line   *)
(* is still driven active and then inactive.                               *)
(***************************************************************************)
C19_OtherDirectionAndNegative ==
    /\ [](\A t \in Threads :
            /\ steps[t] >= 0 /\ direction[t] \notin {0, 1}
                  /\ pc[t] \in {"ims_disable", "ms_clear", "ms_unlock"} =>
                  i[t] = steps[t] /\ count = c0[t] + steps[t]
            /\ steps[t] < 0 =>
                  /\ pc[t] \notin {"ims_bottom", "ims_high", "ims_low",
                                   "ims_load", "ims_store"}
                  /\ pc[t] \in {"ims_dir", "ims_delay", "ims_top", "ims_disable"} =>
                        enableLine = 1
                  /\ pc[t] \in {"ims_top", "ims_disable", "ms_clear", "ms_unlock"} =>
                        i[t] = 0 /\ count = c0[t]
                  /\ pc[t] \in {"ms_clear", "ms_unlock"} => enableLine = 0)
    /\ [][\A t \in Threads : pc[t] = "ims_store" /\ StepOf(t) =>
            count' = (IF direction[t] = 0 THEN count - 1 ELSE count + 1)]_vars

\* a move of two steps in direction 2 has issued its second pulse and is
\* leaving, with both switches reading "triggered"
C19_Witness ==
    /\ pc["a"] = "ims_disable"
    /\ steps["a"] = 2 /\ direction["a"] = 2 /\ i["a"] = 2
    /\ count = c0["a"] + 2
    /\ limitTop = 0 /\ limitBottom = 0

\* a move of -1 steps is leaving: the motor was enabled, no pulse was issued
C19_WitnessNegative ==
    /\ pc["a"] = "ims_disable" /\ steps["a"] < 0 /\ enableLine = 1 /\ i["a"] = 0

=============================================================================
